---- MODULE Spec2Model ----
(***************************************************************************)
(* Model of the server-statistics probe (src/main.go): a poller goroutine  *)
(* that fetches a metrics payload over HTTP and hands it to main over an   *)
(* unbuffered channel, and the main loop that parses each payload and      *)
(* evaluates four resource checks against static thresholds.               *)
(*                                                                         *)
(* A payload is a sequence of one-character strings, so that splitting on  *)
(* the comma and strconv.Atoi are computed, not assumed.                   *)
(***************************************************************************)
EXTENDS Integers, Sequences, FiniteSets, TLC

\* ------------------------------------------------------------------------
\* Program constants (src/main.go:12-24)
\* ------------------------------------------------------------------------
maxRetryCount == 3

expectedMetricsLength == 7

cpuLoadThreshold == 30

memoryUsageThreshold == 80

diskUsageThreshold == 90

networkUsageThreshold == 90

\* 1024 * 1024, the divisor of getFreeDiskSpace
bytesInMegabyte == 1048576

\* 1000 * 1000, the divisor of getFreeNetworkBandwidth
bytesInMegabit == 1000000

\* ------------------------------------------------------------------------
\* Bounds of the model
\* ------------------------------------------------------------------------
\* number of client.Get calls the poller may issue in one run
MaxAttempts == 5

\* ------------------------------------------------------------------------
\* Go integer arithmetic and strconv / strings helpers
\* ------------------------------------------------------------------------
Abs(n) == IF n < 0 THEN -n ELSE n

\* Go's integer division truncates toward zero (b # 0)
GoDiv(a, b) ==
  IF (a < 0) = (b < 0) THEN Abs(a) \div Abs(b) ELSE -(Abs(a) \div Abs(b))

DigitChars == <<"0", "1", "2", "3", "4", "5", "6", "7", "8", "9">>

IsDigit(c) == \E i \in 1..10 : DigitChars[i] = c

DigitVal(c) == (CHOOSE i \in 1..10 : DigitChars[i] = c) - 1

\* value of a run of decimal digits, most significant first
DigitsVal(s) ==
  LET val[i \in 0..Len(s)] ==
        IF i = 0 THEN 0 ELSE val[i - 1] * 10 + DigitVal(s[i])
  IN  val[Len(s)]

\* the digits of 1<<63 - 1, the largest int of a 64-bit build
MaxIntDigits ==
  <<"9", "2", "2", "3", "3", "7", "2", "0", "3", "6",
    "8", "5", "4", "7", "7", "5", "8", "0", "7">>

\* the digits of 1<<63, the magnitude of the smallest int
MinIntDigits == [MaxIntDigits EXCEPT ![19] = "8"]

\* a run of decimal digits is at most the run limit, as numbers
DigitsAtMost(digits, limit) ==
  LET zeros == IF \A i \in 1..Len(digits) : digits[i] = "0" THEN Len(digits)
               ELSE (CHOOSE i \in 1..Len(digits) :
                       digits[i] # "0" /\ \A j \in 1..(i - 1) : digits[j] = "0") - 1
      sig   == SubSeq(digits, zeros + 1, Len(digits))
  IN  \/ Len(sig) < Len(limit)
      \/ /\ Len(sig) = Len(limit)
         /\ ~\E i \in 1..Len(sig) :
               /\ DigitVal(sig[i]) > DigitVal(limit[i])
               /\ \A j \in 1..(i - 1) : sig[j] = limit[j]

\* strconv.Atoi: an optional sign followed by one or more decimal digits,
\* the value within the range of int (ErrSyntax and ErrRange otherwise).
\* Values of more than nine digits are not computed in this model.
Atoi(s) ==
  LET signed == Len(s) > 0 /\ s[1] \in {"+", "-"}
      digits == IF signed THEN SubSeq(s, 2, Len(s)) ELSE s
      valid  == /\ Len(digits) > 0
                /\ \A i \in 1..Len(digits) : IsDigit(digits[i])
                /\ DigitsAtMost(digits, IF signed /\ s[1] = "-" THEN MinIntDigits
                                        ELSE MaxIntDigits)
  IN  IF ~valid THEN [ok |-> FALSE, value |-> 0]
      ELSE [ok |-> TRUE,
            value |-> IF signed /\ s[1] = "-" THEN -DigitsVal(digits)
                      ELSE DigitsVal(digits)]

\* strings.Split(data, ","): the fields between the commas, empty ones kept
Split(data) ==
  LET commas == {i \in 1..Len(data) : data[i] = ","}
      n == Cardinality(commas)
      \* position of the k-th comma; 0 and Len(data) + 1 stand for the ends
      pos(k) == IF k = 0 THEN 0
                ELSE IF k = n + 1 THEN Len(data) + 1
                ELSE CHOOSE i \in commas : Cardinality({j \in commas : j < i}) = k - 1
  IN  [k \in 1..(n + 1) |-> SubSeq(data, pos(k - 1) + 1, pos(k) - 1)]

\* ------------------------------------------------------------------------
\* parseMetrics (src/main.go:184-218)
\* ------------------------------------------------------------------------
\* the snapshot with the two memory fields taken from each other's position
ServerMetrics_MemorySwapped(v) ==
  [CPULoad |-> v[1], MemoryCapacity |-> v[3], MemoryUsage |-> v[2],
   DiskCapacity |-> v[4], DiskUsage |-> v[5],
   NetworkCapacity |-> v[6], NetworkActivity |-> v[7]]

ServerMetrics(v) ==
  [CPULoad |-> v[1], MemoryCapacity |-> v[2], MemoryUsage |-> v[3],
   DiskCapacity |-> v[4], DiskUsage |-> v[5],
   NetworkCapacity |-> v[6], NetworkActivity |-> v[7]]

ZeroMetrics == ServerMetrics(<<0, 0, 0, 0, 0, 0, 0>>)

NoError == [kind |-> "nil", part |-> <<>>]

\* fmt.Errorf("некорректный формат данных")
FormatError == [kind |-> "format", part |-> <<>>]

\* fmt.Errorf("некорректное число: %s", part)
NumberError(part) == [kind |-> "number", part |-> part]

\* parseMetrics reporting the last field that is not an integer
parseMetrics_LastBadField(data) ==
  LET parts == Split(data)
  IN  IF Len(parts) # expectedMetricsLength
      THEN [metrics |-> ZeroMetrics, err |-> FormatError]
      ELSE IF \E i \in 1..Len(parts) : ~Atoi(parts[i]).ok
      THEN LET bad == CHOOSE i \in 1..Len(parts) :
                        /\ ~Atoi(parts[i]).ok
                        /\ \A j \in (i + 1)..Len(parts) : Atoi(parts[j]).ok
           IN  [metrics |-> ZeroMetrics, err |-> NumberError(parts[bad])]
      ELSE [metrics |-> ServerMetrics([i \in 1..expectedMetricsLength |-> Atoi(parts[i]).value]),
            err |-> NoError]

\* parseMetrics rejecting only payloads with too few fields
parseMetrics_ShortOnly(data) ==
  LET parts == Split(data)
  IN  IF Len(parts) < expectedMetricsLength
      THEN [metrics |-> ZeroMetrics, err |-> FormatError]
      ELSE IF \E i \in 1..expectedMetricsLength : ~Atoi(parts[i]).ok
      THEN LET bad == CHOOSE i \in 1..expectedMetricsLength :
                        ~Atoi(parts[i]).ok /\ \A j \in 1..(i - 1) : Atoi(parts[j]).ok
           IN  [metrics |-> ZeroMetrics, err |-> NumberError(parts[bad])]
      ELSE [metrics |-> ServerMetrics([i \in 1..expectedMetricsLength |-> Atoi(parts[i]).value]),
            err |-> NoError]

parseMetrics(data) ==
  LET parts == Split(data)
  IN  IF Len(parts) # expectedMetricsLength
      THEN [metrics |-> ZeroMetrics, err |-> FormatError]
      ELSE IF \E i \in 1..Len(parts) : ~Atoi(parts[i]).ok
      THEN LET bad == CHOOSE i \in 1..Len(parts) :
                        ~Atoi(parts[i]).ok /\ \A j \in 1..(i - 1) : Atoi(parts[j]).ok
           IN  [metrics |-> ZeroMetrics, err |-> NumberError(parts[bad])]
      ELSE [metrics |-> ServerMetrics([i \in 1..expectedMetricsLength |-> Atoi(parts[i]).value]),
            err |-> NoError]

\* ------------------------------------------------------------------------
\* The evaluator (src/main.go:86-123)
\* ------------------------------------------------------------------------
\* the pair a conversion function returns; fault marks a division by zero
\* (a run-time panic in Go)
Usage(usagePercent, freeResource) ==
  [fault |-> FALSE, usagePercent |-> usagePercent, freeResource |-> freeResource]

DivideFault == [fault |-> TRUE, usagePercent |-> 0, freeResource |-> 0]

getDirectUsage(capacity, usage) == Usage(capacity, capacity)

\* getPercentageUsage without its zero-capacity guard: the division faults
getPercentageUsage_Unguarded(capacity, usage) ==
  IF capacity = 0 THEN DivideFault
  ELSE Usage(GoDiv(usage * 100, capacity), GoDiv(usage * 100, capacity))

getPercentageUsage(capacity, usage) ==
  IF capacity = 0 THEN Usage(0, 0)
  ELSE Usage(GoDiv(usage * 100, capacity), GoDiv(usage * 100, capacity))

\* getFreeDiskSpace dividing by the megabit divisor
getFreeDiskSpace_WrongDivisor(capacity, usage) ==
  IF capacity = 0 THEN Usage(0, 0)
  ELSE Usage(GoDiv(usage * 100, capacity), GoDiv(capacity - usage, bytesInMegabit))

getFreeDiskSpace(capacity, usage) ==
  IF capacity = 0 THEN Usage(0, 0)
  ELSE Usage(GoDiv(usage * 100, capacity), GoDiv(capacity - usage, bytesInMegabyte))

getFreeNetworkBandwidth(capacity, usage) ==
  IF capacity = 0 THEN Usage(0, 0)
  ELSE Usage(GoDiv(usage * 100, capacity), GoDiv(capacity - usage, bytesInMegabit))

\* fullPercent of src/unnamed/part_000, percent of src/unnamed/part_001
fullPercent == 100

percent == 100

\* the conversion functions of src/unnamed/part_000: getDirectUsage is that
\* of main.go, the other three divide by capacity without testing it
getPercentageUsage_part000(capacity, usage) ==
  IF capacity = 0 THEN DivideFault
  ELSE Usage(GoDiv(usage * fullPercent, capacity), GoDiv(usage * fullPercent, capacity))

getFreeDiskSpace_part000(capacity, usage) ==
  IF capacity = 0 THEN DivideFault
  ELSE Usage(GoDiv(usage * fullPercent, capacity), GoDiv(capacity - usage, bytesInMegabyte))

getFreeNetworkBandwidth_part000(capacity, usage) ==
  IF capacity = 0 THEN DivideFault
  ELSE Usage(GoDiv(usage * fullPercent, capacity), GoDiv(capacity - usage, bytesInMegabit))

\* the conversion functions of src/unnamed/part_001
checkDirect(capacity, usage) == Usage(capacity, capacity)

checkPercentage(capacity, usage) ==
  IF capacity = 0 THEN DivideFault
  ELSE Usage(GoDiv(usage * percent, capacity), usage)

checkDiskSpace(capacity, usage) ==
  IF capacity = 0 THEN DivideFault
  ELSE Usage(GoDiv(usage * percent, capacity), GoDiv(capacity - usage, bytesInMegabyte))

checkNetworkUsage(capacity, usage) ==
  IF capacity = 0 THEN DivideFault
  ELSE Usage(GoDiv(usage * percent, capacity), GoDiv(capacity - usage, bytesInMegabit))

\* m.checkUsage(m.capacity, m.usage): the function value held in the Metric
checkUsage(m) ==
  CASE m.checkUsage = "getDirectUsage" -> getDirectUsage(m.capacity, m.usage)
    [] m.checkUsage = "getPercentageUsage" -> getPercentageUsage(m.capacity, m.usage)
    [] m.checkUsage = "getFreeDiskSpace" -> getFreeDiskSpace(m.capacity, m.usage)
    [] m.checkUsage = "getFreeNetworkBandwidth" -> getFreeNetworkBandwidth(m.capacity, m.usage)
    [] m.checkUsage = "part_000.getPercentageUsage" ->
         getPercentageUsage_part000(m.capacity, m.usage)
    [] m.checkUsage = "part_000.getFreeDiskSpace" ->
         getFreeDiskSpace_part000(m.capacity, m.usage)
    [] m.checkUsage = "part_000.getFreeNetworkBandwidth" ->
         getFreeNetworkBandwidth_part000(m.capacity, m.usage)
    [] m.checkUsage = "checkDirect" -> checkDirect(m.capacity, m.usage)
    [] m.checkUsage = "checkPercentage" -> checkPercentage(m.capacity, m.usage)
    [] m.checkUsage = "checkDiskSpace" -> checkDiskSpace(m.capacity, m.usage)
    [] m.checkUsage = "checkNetworkUsage" -> checkNetworkUsage(m.capacity, m.usage)

\* a line of standard output: a format string and its argument
Line(message, value) == [message |-> message, value |-> value, err |-> NoError]

\* fmt.Println("Error parsing metrics:", err)
ErrorLine(err) == [message |-> "Error parsing metrics:", value |-> 0, err |-> err]

\* validateResourceUsage alerting already at the threshold
validateResourceUsage_AtThreshold(m, r) ==
  IF r.usagePercent >= m.threshold
  THEN IF m.unit = "%" \/ m.unit = ""
       THEN <<Line(m.message, r.usagePercent)>>
       ELSE <<Line(m.message, r.freeResource)>>
  ELSE <<>>

\* the lines validateResourceUsage prints for m, given what checkUsage returned
validateResourceUsage(m, r) ==
  IF r.usagePercent > m.threshold
  THEN IF m.unit = "%" \/ m.unit = ""
       THEN <<Line(m.message, r.usagePercent)>>
       ELSE <<Line(m.message, r.freeResource)>>
  ELSE <<>>

\* a metricList with the CPU check entered twice
NewMetricList_Duplicate(metrics) ==
  << [capacity |-> metrics.CPULoad, usage |-> metrics.CPULoad,
      threshold |-> cpuLoadThreshold,
      message |-> "Load Average is too high: %d",
      unit |-> "", checkUsage |-> "getDirectUsage"],
     [capacity |-> metrics.CPULoad, usage |-> metrics.CPULoad,
      threshold |-> cpuLoadThreshold,
      message |-> "Load Average is too high: %d",
      unit |-> "", checkUsage |-> "getDirectUsage"],
     [capacity |-> metrics.MemoryCapacity, usage |-> metrics.MemoryUsage,
      threshold |-> memoryUsageThreshold,
      message |-> "Memory usage too high: %d%%",
      unit |-> "%", checkUsage |-> "getPercentageUsage"],
     [capacity |-> metrics.DiskCapacity, usage |-> metrics.DiskUsage,
      threshold |-> diskUsageThreshold,
      message |-> "Free disk space is too low: %d Mb left",
      unit |-> "Mb", checkUsage |-> "getFreeDiskSpace"],
     [capacity |-> metrics.NetworkCapacity, usage |-> metrics.NetworkActivity,
      threshold |-> networkUsageThreshold,
      message |-> "Network bandwidth usage high: %d Mbit/s available",
      unit |-> "Mbit/s", checkUsage |-> "getFreeNetworkBandwidth"] >>

\* the metricList literal of main
NewMetricList(metrics) ==
  << [capacity |-> metrics.CPULoad, usage |-> metrics.CPULoad,
      threshold |-> cpuLoadThreshold,
      message |-> "Load Average is too high: %d",
      unit |-> "", checkUsage |-> "getDirectUsage"],
     [capacity |-> metrics.MemoryCapacity, usage |-> metrics.MemoryUsage,
      threshold |-> memoryUsageThreshold,
      message |-> "Memory usage too high: %d%%",
      unit |-> "%", checkUsage |-> "getPercentageUsage"],
     [capacity |-> metrics.DiskCapacity, usage |-> metrics.DiskUsage,
      threshold |-> diskUsageThreshold,
      message |-> "Free disk space is too low: %d Mb left",
      unit |-> "Mb", checkUsage |-> "getFreeDiskSpace"],
     [capacity |-> metrics.NetworkCapacity, usage |-> metrics.NetworkActivity,
      threshold |-> networkUsageThreshold,
      message |-> "Network bandwidth usage high: %d Mbit/s available",
      unit |-> "Mbit/s", checkUsage |-> "getFreeNetworkBandwidth"] >>

\* the metricList literal of main in src/unnamed/part_000
NewMetricList_part000(metrics) ==
  << [capacity |-> metrics.CPULoad, usage |-> metrics.CPULoad,
      threshold |-> cpuLoadThreshold,
      message |-> "Load Average is too high: %d",
      unit |-> "", checkUsage |-> "getDirectUsage"],
     [capacity |-> metrics.MemoryCapacity, usage |-> metrics.MemoryUsage,
      threshold |-> memoryUsageThreshold,
      message |-> "Memory usage too high: %d%%",
      unit |-> "%", checkUsage |-> "part_000.getPercentageUsage"],
     [capacity |-> metrics.DiskCapacity, usage |-> metrics.DiskUsage,
      threshold |-> diskUsageThreshold,
      message |-> "Free disk space is too low: %d Mb left",
      unit |-> "Mb", checkUsage |-> "part_000.getFreeDiskSpace"],
     [capacity |-> metrics.NetworkCapacity, usage |-> metrics.NetworkActivity,
      threshold |-> networkUsageThreshold,
      message |-> "Network bandwidth usage high: %d Mbit/s available",
      unit |-> "Mbit/s", checkUsage |-> "part_000.getFreeNetworkBandwidth"] >>

\* createMetricsList of src/unnamed/part_001: seven entries, the CPU, memory
\* and disk checks entered twice
createMetricsList(metrics) ==
  LET cpu == [capacity |-> metrics.CPULoad, usage |-> metrics.CPULoad,
              threshold |-> cpuLoadThreshold,
              message |-> "Load Average is too high: %d",
              unit |-> "", checkUsage |-> "checkDirect"]
      memory == [capacity |-> metrics.MemoryCapacity, usage |-> metrics.MemoryUsage,
                 threshold |-> memoryUsageThreshold,
                 message |-> "Memory usage too high: %d%%",
                 unit |-> "%", checkUsage |-> "checkPercentage"]
      disk == [capacity |-> metrics.DiskCapacity, usage |-> metrics.DiskUsage,
               threshold |-> diskUsageThreshold,
               message |-> "Free disk space is too low: %d Mb left",
               unit |-> "Mb", checkUsage |-> "checkDiskSpace"]
      network == [capacity |-> metrics.NetworkCapacity, usage |-> metrics.NetworkActivity,
                  threshold |-> networkUsageThreshold,
                  message |-> "Network bandwidth usage high: %d Mbit/s available",
                  unit |-> "Mbit/s", checkUsage |-> "checkNetworkUsage"]
  IN  <<cpu, cpu, memory, disk, memory, network, disk>>

\* ------------------------------------------------------------------------
\* Response bodies the server may return
\* ------------------------------------------------------------------------
RECURSIVE NatStr(_)
NatStr(n) ==
  IF n < 10 THEN <<DigitChars[n + 1]>>
  ELSE NatStr(n \div 10) \o <<DigitChars[(n % 10) + 1]>>

\* decimal text of an integer
Itoa(n) == IF n < 0 THEN <<"-">> \o NatStr(-n) ELSE NatStr(n)

\* the fields joined by commas
RECURSIVE Csv(_)
Csv(fields) ==
  IF Len(fields) = 1 THEN Itoa(fields[1])
  ELSE Csv(SubSeq(fields, 1, Len(fields) - 1)) \o <<",">> \o Itoa(fields[Len(fields)])

\* the two scenario payloads of the specification, a payload with 3 fields
\* and a payload whose third field is not a number
QuietBody == Csv(<<25, 16000, 8000, 500000, 100000, 100000, 50000>>)

AlertBody == Csv(<<95, 1000, 999, 1000, 999, 1000, 999>>)

ShortBody == Csv(<<1, 2, 3>>)

BadNumberBody == Csv(<<1, 2>>) \o <<",", "x", ",">> \o Csv(<<4, 5, 6, 7>>)

\* the text of a payload, one character per element
Text(str) ==
  CASE str = "1,x" -> <<"1", ",", "x">>
    [] str = "1,x,3,y,5,6,7" ->
         <<"1", ",", "x", ",", "3", ",", "y", ",", "5", ",", "6", ",", "7">>
    [] str = "1,,3,4,5,6,7" ->
         <<"1", ",", ",", "3", ",", "4", ",", "5", ",", "6", ",", "7">>
    [] str = "1,2,3,4,5,6,7.5" ->
         <<"1", ",", "2", ",", "3", ",", "4", ",", "5", ",", "6", ",", "7", ".", "5">>
    [] str = "a,b,c,d,e,f,g,h" ->
         <<"a", ",", "b", ",", "c", ",", "d", ",", "e", ",", "f", ",", "g", ",", "h">>
    [] str = "007,2,3,4,5,6,7" ->
         <<"0", "0", "7", ",", "2", ",", "3", ",", "4", ",", "5", ",", "6", ",", "7">>

\* payloads that parseMetrics rejects, and two it accepts in an unusual
\* notation (a leading plus sign, leading zeros)
OddPayloads ==
  { Text("1,x"), Text("1,x,3,y,5,6,7"), Text("1,,3,4,5,6,7"),
    Text("1,2,3,4,5,6,7.5"), Text("a,b,c,d,e,f,g,h"), Text("007,2,3,4,5,6,7"),
    Csv(<<1, 2, 3, 4, 5, 6>>) \o <<",">> \o MinIntDigits,
    Csv(<<1, 2, 3, 4, 5, 6>>),
    Csv(<<1, 2, 3, 4, 5, 6, 7>>) \o <<",">> }

\* bodies served to the poller in the specification of the whole program
Bodies == {QuietBody, AlertBody, ShortBody, BadNumberBody}

\* values of the CPU field, and (capacity, usage) pairs of the other three
\* resources: at the threshold, one above it, zero capacity, free quantities
\* that do not divide evenly, and usage above capacity
CPULoads == {0, 30, 31, 95}

MemoryPairs == {<<100, 80>>, <<100, 81>>, <<0, 5>>, <<16000, 8000>>, <<300, -7>>}

DiskPairs ==
  {<<100, 90>>, <<100, 91>>, <<0, 5>>, <<20971520, 19100000>>,
   <<20971520, 19931520>>, <<1048576, 2621440>>}

NetworkPairs ==
  {<<100, 90>>, <<100, 91>>, <<0, 5>>, <<20000000, 18500000>>, <<1000000, 2500000>>}

\* payloads handed to the parse-and-evaluate pass on its own
Payloads ==
  { Csv(<<c, m[1], m[2], d[1], d[2], n[1], n[2]>>) :
      c \in CPULoads, m \in MemoryPairs, d \in DiskPairs, n \in NetworkPairs }
  \cup Bodies
  \cup { Csv(<<-1, 100, 81, 100, 91, 100, 91>>),
         <<"+", "4", "0">> \o <<",">> \o Csv(<<100, 81, 100, 91, 100, 91>>),
         Csv(<<1, 2, 3, 4, 5, 6, 7, 8>>),
         <<>> }
  \cup OddPayloads

\* parseMetrics tabulated once over the payloads of the model
ParsedPayloads == [p \in Payloads |-> parseMetrics(p)]

\* ------------------------------------------------------------------------
\* State
\* ------------------------------------------------------------------------
VARIABLES
  pcP,           \* poller goroutine: "loop", "read", "send", "break", "done"
  errorCounter,  \* errorCounter of startPolling
  body,          \* the body read by io.ReadAll, while the poller holds it
  closed,        \* dataChannel has been closed
  notices,       \* how many times the terminal notice was printed
  pollerOut,     \* the last diagnostic line the poller printed
  attempts,      \* number of client.Get calls so far
  history,       \* one record per fetch attempt, in order
  sent,          \* the bodies sent on dataChannel, in order
  pcM,           \* main: "range", "parse", "validate", "exit", "panic"
  response,      \* the loop variable of main's range loop
  metrics,       \* metrics, as returned by the last parseMetrics call
  err,           \* err, as returned by the last parseMetrics call
  parsedLog,     \* the payloads parseMetrics was called on, in order
  metricList,    \* metricList of the current iteration
  mi,            \* index of the next element of metricList to validate
  checks,        \* what validateResourceUsage did for each element so far
  cycleOut,      \* lines main printed for the payload it last received
  received,      \* the payloads main received, in order
  seen           \* (payload, lines printed) of every completed iteration

pollerVars ==
  <<pcP, errorCounter, body, closed, notices, pollerOut, attempts, history, sent>>

mainVars ==
  <<pcM, response, metrics, err, parsedLog, metricList, mi, checks, cycleOut,
    received, seen>>

vars == <<pollerVars, mainVars>>

\* the retries argument main passes to startPolling
retries == maxRetryCount

NoBody == <<"<", "n", "i", "l", ">">>

Last(s) == s[Len(s)]

SetLast(s, r) == [s EXCEPT ![Len(s)] = r]

Init ==
  /\ pcP = "loop"
  /\ errorCounter = 0
  /\ body = NoBody
  /\ closed = FALSE
  /\ notices = 0
  /\ pollerOut = ""
  /\ attempts = 0
  /\ history = <<>>
  /\ sent = <<>>
  /\ pcM = "range"
  /\ response = NoBody
  /\ metrics = ZeroMetrics
  /\ err = NoError
  /\ parsedLog = <<>>
  /\ metricList = <<>>
  /\ mi = 1
  /\ checks = <<>>
  /\ cycleOut = <<>>
  /\ received = <<>>
  /\ seen = {}

\* the process is alive: a panic in main ends every goroutine
Running == pcM # "panic"

\* ------------------------------------------------------------------------
\* The poller goroutine (src/main.go:125-182)
\* ------------------------------------------------------------------------
\* http.StatusOK
StatusOK == 200

\* what client.Get may return: a transport error, or a response with a status
Responses ==
  {[err |-> TRUE, StatusCode |-> 0],
   [err |-> FALSE, StatusCode |-> StatusOK],
   [err |-> FALSE, StatusCode |-> 500]}

\* incrementErrorCount charging two errors for one failure
incrementErrorCount_ByTwo(errorCount) == errorCount + 2

incrementErrorCount(errorCount) == errorCount + 1

\* processResponseError without the status-code test
processResponseError_NoStatusCheck(resp, errorCount) ==
  IF resp.err THEN incrementErrorCount(errorCount)
  ELSE errorCount

processResponseError(resp, errorCount) ==
  IF resp.err THEN incrementErrorCount(errorCount)
  ELSE IF resp.StatusCode # StatusOK THEN incrementErrorCount(errorCount)
  ELSE errorCount

\* the line processResponseError prints, if any; the source's texts are
\* "Ошибка при отправке запроса: %s" and "Неверный код статуса: %d"
processResponseErrorOut(resp, last) ==
  IF resp.err THEN "request error: %s"
  ELSE IF resp.StatusCode # StatusOK THEN "invalid status code: %d"
  ELSE last

\* how the attempt record names the result of client.Get
GetOutcome(resp) ==
  IF resp.err THEN "transport"
  ELSE IF resp.StatusCode # StatusOK THEN "status" ELSE "ok"

\* the `continue` after processResponseError is taken when the counter is
\* positive, whatever this response was
ContinueAfterGet(errorCount) == errorCount > 0

\* the budget test with > in place of >=
BudgetExhausted_OffByOne(errorCount) == errorCount > retries

\* `if errorCounter >= retries` at the top of the loop
BudgetExhausted(errorCount) == errorCount >= retries

\* top of the loop with budget left: client.Get and processResponseError
Get(resp) ==
  /\ Running
  /\ pcP = "loop"
  /\ ~BudgetExhausted(errorCounter)
  /\ attempts < MaxAttempts
  /\ attempts' = attempts + 1
  /\ LET count == processResponseError(resp, errorCounter)
     IN  /\ errorCounter' = count
         /\ pcP' = IF ContinueAfterGet(count) THEN "loop" ELSE "read"
         /\ history' = Append(history,
                              [get |-> GetOutcome(resp), read |-> "none",
                               before |-> errorCounter, after |-> count,
                               sent |-> FALSE])
  /\ pollerOut' = processResponseErrorOut(resp, pollerOut)
  /\ UNCHANGED <<body, closed, notices, sent, mainVars>>

\* io.ReadAll(response.Body)
ReadBody(readErr, b) ==
  /\ Running
  /\ pcP = "read"
  /\ IF readErr
       THEN /\ errorCounter' = incrementErrorCount(errorCounter)
            \* "не удалось прочитать тело ответа: %s"
            /\ pollerOut' = "failed to read response body: %s"
            /\ body' = NoBody
            /\ pcP' = "loop"
            /\ history' = SetLast(history,
                 [Last(history) EXCEPT !.read = "err",
                                       !.after = incrementErrorCount(errorCounter)])
       ELSE /\ body' = b
            /\ pcP' = "send"
            /\ history' = SetLast(history, [Last(history) EXCEPT !.read = "ok"])
            /\ UNCHANGED <<errorCounter, pollerOut>>
  /\ UNCHANGED <<attempts, closed, notices, sent, mainVars>>

\* a send that completes without main ever receiving the payload
Send_Lost ==
  /\ Running
  /\ pcP = "send"
  /\ pcM = "range"
  /\ ~closed
  /\ sent' = Append(sent, body)
  /\ errorCounter' = 0
  /\ body' = NoBody
  /\ pcP' = "loop"
  /\ history' = SetLast(history, [Last(history) EXCEPT !.sent = TRUE, !.after = 0])
  /\ UNCHANGED <<attempts, closed, notices, pollerOut, mainVars>>

\* a send that completes wherever main is, main's loop variable taking the
\* value at once
Send_NoRendezvous ==
  /\ Running
  /\ pcP = "send"
  /\ pcM \in {"range", "parse", "validate"}
  /\ ~closed
  /\ sent' = Append(sent, body)
  /\ received' = Append(received, body)
  /\ response' = body
  /\ pcM' = "parse"
  /\ checks' = <<>>
  /\ cycleOut' = <<>>
  /\ errorCounter' = 0
  /\ body' = NoBody
  /\ pcP' = "loop"
  /\ history' = SetLast(history, [Last(history) EXCEPT !.sent = TRUE, !.after = 0])
  /\ UNCHANGED <<attempts, closed, notices, pollerOut>>
  /\ UNCHANGED <<metrics, err, parsedLog, metricList, mi, seen>>

\* dataChannel <- string(body) meeting main's receive (the channel has no
\* buffer), followed by errorCounter = 0
Send ==
  /\ Running
  /\ pcP = "send"
  /\ pcM = "range"
  /\ ~closed
  /\ sent' = Append(sent, body)
  /\ received' = Append(received, body)
  /\ response' = body
  /\ pcM' = "parse"
  /\ checks' = <<>>
  /\ cycleOut' = <<>>
  /\ errorCounter' = 0
  /\ body' = NoBody
  /\ pcP' = "loop"
  /\ history' = SetLast(history, [Last(history) EXCEPT !.sent = TRUE, !.after = 0])
  /\ UNCHANGED <<attempts, closed, notices, pollerOut>>
  /\ UNCHANGED <<metrics, err, parsedLog, metricList, mi, seen>>

\* errorCounter >= retries: the terminal notice and break
GiveUp ==
  /\ Running
  /\ pcP = "loop"
  /\ BudgetExhausted(errorCounter)
  /\ notices' = notices + 1
  \* "Не удалось получить статистику сервера после нескольких попыток."
  /\ pollerOut' = "failed to get server statistics after several attempts"
  /\ pcP' = "break"
  /\ UNCHANGED <<errorCounter, body, closed, attempts, history, sent, mainVars>>

\* the goroutine returning without closing dataChannel
CloseChannel_Missing ==
  /\ Running
  /\ pcP = "break"
  /\ pcP' = "done"
  /\ UNCHANGED <<errorCounter, body, closed, notices, pollerOut, attempts, history, sent, mainVars>>

\* defer close(dataChannel)
CloseChannel ==
  /\ Running
  /\ pcP = "break"
  /\ closed' = TRUE
  /\ pcP' = "done"
  /\ UNCHANGED <<errorCounter, body, notices, pollerOut, attempts, history, sent, mainVars>>

\* ------------------------------------------------------------------------
\* main (src/main.go:35-84)
\* ------------------------------------------------------------------------
\* the range loop finds the channel closed and empty
RangeEnd ==
  /\ pcM = "range"
  /\ closed
  /\ pcM' = "exit"
  /\ UNCHANGED <<pollerVars, response, metrics, err, parsedLog, metricList, mi,
                  checks, cycleOut, received, seen>>

\* a main loop that charges a parse failure to the poller's error counter
Parse_CountsParseErrors ==
  /\ pcM = "parse"
  /\ parsedLog' = Append(parsedLog, response)
  /\ LET r == ParsedPayloads[response]
     IN  /\ metrics' = r.metrics
         /\ err' = r.err
         /\ IF r.err # NoError
              THEN /\ cycleOut' = Append(cycleOut, ErrorLine(r.err))
                   /\ seen' = seen \cup {[payload |-> response,
                                          lines |-> Append(cycleOut, ErrorLine(r.err))]}
                   /\ pcM' = "range"
                   /\ errorCounter' = IF errorCounter < retries THEN errorCounter + 1
                                      ELSE errorCounter
                   /\ UNCHANGED <<metricList, mi>>
              ELSE /\ metricList' = NewMetricList(r.metrics)
                   /\ mi' = 1
                   /\ pcM' = "validate"
                   /\ UNCHANGED <<cycleOut, seen, errorCounter>>
  /\ UNCHANGED <<pcP, body, closed, notices, pollerOut, attempts, history, sent>>
  /\ UNCHANGED <<response, checks, received>>

\* parseMetrics(response), the error branch, and the metricList literal
Parse ==
  /\ pcM = "parse"
  /\ parsedLog' = Append(parsedLog, response)
  /\ LET r == ParsedPayloads[response]
     IN  /\ metrics' = r.metrics
         /\ err' = r.err
         /\ IF r.err # NoError
              THEN /\ cycleOut' = Append(cycleOut, ErrorLine(r.err))
                   /\ seen' = seen \cup {[payload |-> response,
                                          lines |-> Append(cycleOut, ErrorLine(r.err))]}
                   /\ pcM' = "range"
                   /\ UNCHANGED <<metricList, mi>>
              ELSE /\ metricList' = NewMetricList(r.metrics)
                   /\ mi' = 1
                   /\ pcM' = "validate"
                   /\ UNCHANGED <<cycleOut, seen>>
  /\ UNCHANGED <<pollerVars, response, checks, received>>

\* one iteration of `for _, metric := range metricList`
Validate ==
  /\ pcM = "validate"
  /\ mi <= Len(metricList)
  /\ LET m == metricList[mi]
         r == checkUsage(m)
         printed == validateResourceUsage(m, r)
     IN  IF r.fault
         THEN /\ pcM' = "panic"
              /\ UNCHANGED <<mi, checks, cycleOut, seen>>
         ELSE /\ cycleOut' = cycleOut \o printed
              /\ checks' = Append(checks,
                     [metric |-> m, usagePercent |-> r.usagePercent,
                      freeResource |-> r.freeResource, printed |-> printed])
              /\ mi' = mi + 1
              /\ IF mi = Len(metricList)
                   THEN /\ pcM' = "range"
                        /\ seen' = seen \cup {[payload |-> response,
                                               lines |-> cycleOut \o printed]}
                   ELSE UNCHANGED <<pcM, seen>>
  /\ UNCHANGED <<pollerVars, response, metrics, err, parsedLog, metricList, received>>

Next ==
  \/ \E resp \in Responses : Get(resp)
  \/ \E readErr \in BOOLEAN, b \in Bodies : ReadBody(readErr, b)
  \/ Send
  \/ GiveUp
  \/ CloseChannel
  \/ RangeEnd
  \/ Parse
  \/ Validate

Spec == Init /\ [][Next]_vars

\* the goroutines are scheduled fairly: a step that stays possible is taken
PollerNext ==
  \/ \E resp \in Responses : Get(resp)
  \/ \E readErr \in BOOLEAN, b \in Bodies : ReadBody(readErr, b)
  \/ Send
  \/ GiveUp
  \/ CloseChannel

MainNext == RangeEnd \/ Parse \/ Validate

FairSpec == Spec /\ WF_vars(PollerNext) /\ WF_vars(MainNext)

\* ------------------------------------------------------------------------
\* The parse-and-evaluate pass on one payload: main has just received the
\* body of the first, successful fetch
\* ------------------------------------------------------------------------
EvalInit ==
  \E p \in Payloads :
    /\ pcP = "loop"
    /\ errorCounter = 0
    /\ body = NoBody
    /\ closed = FALSE
    /\ notices = 0
    /\ pollerOut = ""
    /\ attempts = 1
    /\ history = <<[get |-> "ok", read |-> "ok", before |-> 0, after |-> 0, sent |-> TRUE]>>
    /\ sent = <<p>>
    /\ pcM = "parse"
    /\ response = p
    /\ metrics = ZeroMetrics
    /\ err = NoError
    /\ parsedLog = <<>>
    /\ metricList = <<>>
    /\ mi = 1
    /\ checks = <<>>
    /\ cycleOut = <<>>
    /\ received = <<p>>
    /\ seen = {}

EvalNext == Parse \/ Validate

EvalSpec == EvalInit /\ [][EvalNext]_vars

\* ------------------------------------------------------------------------
\* validateResourceUsage on its own, applied to one Metric value
\* ------------------------------------------------------------------------
FnCapacities == {0, 1, 100}

FnUsages == {-3, 0, 5, 95}

FnThresholds == {-1, 0, 30, 80, 90}

FnUnits == {"", "%", "Mb", "Mbit/s"}

FnCheckUsages ==
  {"getDirectUsage", "getPercentageUsage", "getFreeDiskSpace", "getFreeNetworkBandwidth"}

Metrics ==
  [capacity : FnCapacities, usage : FnUsages, threshold : FnThresholds,
   message : {"%d"}, unit : FnUnits, checkUsage : FnCheckUsages]

FnInit ==
  \E m \in Metrics :
    /\ pcP = "loop"
    /\ errorCounter = 0
    /\ body = NoBody
    /\ closed = FALSE
    /\ notices = 0
    /\ pollerOut = ""
    /\ attempts = 0
    /\ history = <<>>
    /\ sent = <<>>
    /\ pcM = "validate"
    /\ response = NoBody
    /\ metrics = ZeroMetrics
    /\ err = NoError
    /\ parsedLog = <<>>
    /\ metricList = <<m>>
    /\ mi = 1
    /\ checks = <<>>
    /\ cycleOut = <<>>
    /\ received = <<>>
    /\ seen = {}

FnNext == Validate

FnSpec == FnInit /\ [][FnNext]_vars

\* ------------------------------------------------------------------------
\* The variant src/unnamed/part_001: startPolling takes the outcome of
\* client.Get by its error alone, main builds its list with
\* createMetricsList. The send, the close and the range loop are those of
\* main.go (unbuffered channel, defer close), checkMetric is
\* validateResourceUsage under another name.
\* ------------------------------------------------------------------------
\* top of the loop with budget left: client.Get and `if err != nil`
Get_part001(resp) ==
  /\ Running
  /\ pcP = "loop"
  /\ ~(errorCounter >= maxRetryCount)
  /\ attempts < MaxAttempts
  /\ attempts' = attempts + 1
  /\ IF resp.err
       THEN /\ pollerOut' = "Request error:"
            /\ errorCounter' = errorCounter + 1
            /\ pcP' = "loop"
            /\ history' = Append(history,
                                 [get |-> GetOutcome(resp), read |-> "none",
                                  before |-> errorCounter, after |-> errorCounter + 1,
                                  sent |-> FALSE])
       ELSE /\ pcP' = "read"
            /\ history' = Append(history,
                                 [get |-> GetOutcome(resp), read |-> "none",
                                  before |-> errorCounter, after |-> errorCounter,
                                  sent |-> FALSE])
            /\ UNCHANGED <<errorCounter, pollerOut>>
  /\ UNCHANGED <<body, closed, notices, sent, mainVars>>

\* io.ReadAll(response.Body) and `if err != nil`
ReadBody_part001(readErr, b) ==
  /\ Running
  /\ pcP = "read"
  /\ IF readErr
       THEN /\ pollerOut' = "Error reading response:"
            /\ errorCounter' = errorCounter + 1
            /\ body' = NoBody
            /\ pcP' = "loop"
            /\ history' = SetLast(history,
                 [Last(history) EXCEPT !.read = "err", !.after = errorCounter + 1])
       ELSE /\ body' = b
            /\ pcP' = "send"
            /\ history' = SetLast(history, [Last(history) EXCEPT !.read = "ok"])
            /\ UNCHANGED <<errorCounter, pollerOut>>
  /\ UNCHANGED <<attempts, closed, notices, sent, mainVars>>

\* errorCounter >= maxRetryCount: the notice and break
GiveUp_part001 ==
  /\ Running
  /\ pcP = "loop"
  /\ errorCounter >= maxRetryCount
  /\ notices' = notices + 1
  /\ pollerOut' = "Max retries reached"
  /\ pcP' = "break"
  /\ UNCHANGED <<errorCounter, body, closed, attempts, history, sent, mainVars>>

\* parseMetrics(data), the error branch, and createMetricsList(metrics)
Parse_part001 ==
  /\ pcM = "parse"
  /\ parsedLog' = Append(parsedLog, response)
  /\ LET r == ParsedPayloads[response]
     IN  /\ metrics' = r.metrics
         /\ err' = r.err
         /\ IF r.err # NoError
              THEN /\ cycleOut' = Append(cycleOut, ErrorLine(r.err))
                   /\ seen' = seen \cup {[payload |-> response,
                                          lines |-> Append(cycleOut, ErrorLine(r.err))]}
                   /\ pcM' = "range"
                   /\ UNCHANGED <<metricList, mi>>
              ELSE /\ metricList' = createMetricsList(r.metrics)
                   /\ mi' = 1
                   /\ pcM' = "validate"
                   /\ UNCHANGED <<cycleOut, seen>>
  /\ UNCHANGED <<pollerVars, response, checks, received>>

\* bodies served to the poller of the variant: one that breaches every
\* threshold and one that does not parse
Bodies_part001 == {AlertBody, ShortBody}

Next_part001 ==
  \/ \E resp \in Responses : Get_part001(resp)
  \/ \E readErr \in BOOLEAN, b \in Bodies_part001 : ReadBody_part001(readErr, b)
  \/ Send
  \/ GiveUp_part001
  \/ CloseChannel
  \/ RangeEnd
  \/ Parse_part001
  \/ Validate

Spec_part001 == Init /\ [][Next_part001]_vars

\* ------------------------------------------------------------------------
\* The parse-and-evaluate pass of the variants on one payload
\* ------------------------------------------------------------------------
\* parseMetrics(response), the silent error branch, and the metricList
\* literal of src/unnamed/part_000
Parse_part000 ==
  /\ pcM = "parse"
  /\ parsedLog' = Append(parsedLog, response)
  /\ LET r == ParsedPayloads[response]
     IN  /\ metrics' = r.metrics
         /\ err' = r.err
         /\ IF r.err # NoError
              THEN /\ seen' = seen \cup {[payload |-> response, lines |-> cycleOut]}
                   /\ pcM' = "range"
                   /\ UNCHANGED <<metricList, mi, cycleOut>>
              ELSE /\ metricList' = NewMetricList_part000(r.metrics)
                   /\ mi' = 1
                   /\ pcM' = "validate"
                   /\ UNCHANGED <<cycleOut, seen>>
  /\ UNCHANGED <<pollerVars, response, checks, received>>

EvalNext_variants == Parse_part000 \/ Parse_part001 \/ Validate

EvalSpec_variants == EvalInit /\ [][EvalNext_variants]_vars

\* ------------------------------------------------------------------------
\* Types
\* ------------------------------------------------------------------------
TypeOK ==
  /\ pcP \in {"loop", "read", "send", "break", "done"}
  /\ pcM \in {"range", "parse", "validate", "exit", "panic"}
  /\ errorCounter \in 0..retries
  /\ attempts \in 0..MaxAttempts
  /\ closed \in BOOLEAN
  /\ Len(history) = attempts
  /\ mi \in 1..(Len(metricList) + 1)

\* ------------------------------------------------------------------------
\* Properties of the poller
\* ------------------------------------------------------------------------
\* attempt i has run to its end: the poller is not between its Get and the
\* end of the same iteration
AttemptComplete(i) == i < Len(history) \/ pcP \notin {"read", "send"}

\* no transport error, status OK, no error reading the body
FetchSucceeded(a) == a.get = "ok" /\ a.read # "err"

FetchFailed(a) == a.get # "ok" \/ a.read = "err"

\* C1: every fetch attempt that succeeds (no transport error, status OK, no
\* body-read error) sends its body on the channel, whatever happened in the
\* earlier attempts.
C1_EverySuccessfulFetchIsSent ==
  \A i \in 1..Len(history) :
    (AttemptComplete(i) /\ FetchSucceeded(history[i])) => history[i].sent

\* C2: the poller stops only when its last `retries` attempts all failed,
\* and after the outcomes failure, success, failure, failure the counter is
\* below the budget.
C2_OnlyBackToBackFailuresStop ==
  /\ notices > 0 =>
       /\ Len(history) >= retries
       /\ \A i \in (Len(history) - retries + 1)..Len(history) : FetchFailed(history[i])
  /\ ( /\ Len(history) = 4
       /\ pcP = "loop"
       /\ FetchFailed(history[1])
       /\ FetchSucceeded(history[2])
       /\ FetchFailed(history[3])
       /\ FetchFailed(history[4]) ) => errorCounter < retries

\* a step taken with the budget spent fetches nothing, sends nothing, leaves
\* the counter alone, prints the notice at most once and never reopens or
\* restarts anything
BudgetSpentStep ==
  (errorCounter >= retries) =>
    /\ attempts' = attempts
    /\ history' = history
    /\ sent' = sent
    /\ received' = received
    /\ errorCounter' = errorCounter
    /\ notices' <= 1
    /\ closed => closed'
    /\ pcP = "done" => pcP' = "done"

\* C3: once the error counter has reached the retry budget no further fetch
\* is made and nothing is sent any more, and the poller goes on to print the
\* terminal notice once and close the channel, for good.
C3_ExhaustionIsFinal ==
  /\ [][BudgetSpentStep]_vars
  /\ (errorCounter >= retries) ~> [](notices = 1 /\ closed /\ pcP = "done")

C3_Witness ==
  /\ pcP = "done"
  /\ closed
  /\ notices = 1
  /\ errorCounter = retries
  /\ Len(sent) >= 1
  /\ Len(history) = Len(sent) + retries

\* C4: when the poller has used up its budget, main's range loop eventually
\* sees the end of the channel and main leaves the loop.
C4_MainLoopEnds ==
  /\ (errorCounter >= retries) ~> (pcM = "exit")
  /\ [](pcM = "exit" => (closed /\ received = sent))

C4_Witness ==
  /\ pcM = "exit"
  /\ pcP = "done"
  /\ errorCounter >= retries
  /\ Len(received) >= 1

\* the step that ends a failed attempt: a Get that returned a transport
\* error or a non-OK status, or a ReadAll that returned an error
FailedAttemptStep ==
  /\ Len(history') >= 1
  /\ \/ attempts' = attempts + 1 /\ Last(history').get # "ok"
     \/ pcP = "read" /\ pcP' # "read" /\ Last(history').read = "err"

\* C5: a failed fetch attempt adds exactly one to the error counter, sends
\* nothing, and the loop goes on to its next iteration.
C5_FailureCountsOnce ==
  [][FailedAttemptStep =>
       /\ errorCounter' = errorCounter + 1
       /\ sent' = sent
       /\ received' = received
       /\ pcP' = "loop"]_vars

C5_Witness ==
  /\ Len(history) = 3
  /\ history[1].read = "err"
  /\ history[2].get = "transport"
  /\ history[3].get = "status"
  /\ errorCounter = 3
  /\ sent = <<>>
  /\ pcP = "loop"

\* ------------------------------------------------------------------------
\* Properties of the main loop and the evaluator
\* ------------------------------------------------------------------------
\* the payload main holds does not parse
ParseFails == pcM = "parse" /\ parseMetrics(response).err # NoError

\* the failed fetch attempts so far
FailedAttempts == {i \in 1..Len(history) : FetchFailed(history[i])}

\* C6: a payload that fails to parse leaves the poller's error counter and
\* the poller itself untouched, prints no alert line, and main goes back to
\* receiving; the poller stops only after `retries` failed fetches, never
\* because of parse failures.
C6_ParseFailureIsNotCounted ==
  /\ [][(ParseFails /\ pcM' # pcM) =>
          /\ pcM' = "range"
          /\ UNCHANGED pollerVars
          /\ cycleOut' = <<ErrorLine(parseMetrics(response).err)>>]_vars
  /\ [](notices > 0 => Cardinality(FailedAttempts) >= retries)

C6_Witness ==
  /\ Len(received) = MaxAttempts
  /\ \A i \in 1..Len(received) : parseMetrics(received[i]).err # NoError
  /\ \E i \in 1..Len(received) : parseMetrics(received[i]).err.kind = "format"
  /\ \E i \in 1..Len(received) : parseMetrics(received[i]).err.kind = "number"
  /\ pcM = "range"
  /\ pcP = "loop"
  /\ errorCounter = 0
  /\ notices = 0
  /\ ~closed

\* thresholds and message templates of the four resources, in the order
\* CPU, memory, disk, network
ResourceThresholds == <<30, 80, 90, 90>>

ResourceMessages ==
  <<"Load Average is too high: %d",
    "Memory usage too high: %d%%",
    "Free disk space is too low: %d Mb left",
    "Network bandwidth usage high: %d Mbit/s available">>

\* the lines of the current iteration that carry the i-th resource's message
AlertsOf(i) == {k \in 1..Len(cycleOut) : cycleOut[k].message = ResourceMessages[i]}

\* C7: a resource's alert is printed if and only if its computed
\* usagePercent is strictly greater than its threshold (30, 80, 90, 90):
\* never at the threshold, always one above it.
C7_AlertIffAboveThreshold ==
  \A i \in 1..Len(checks) :
    /\ checks[i].usagePercent > ResourceThresholds[i] => Cardinality(AlertsOf(i)) = 1
    /\ checks[i].usagePercent <= ResourceThresholds[i] => AlertsOf(i) = {}

C7_Witness ==
  /\ Len(checks) = 4
  /\ checks[1].usagePercent = 30
  /\ checks[2].usagePercent = 81
  /\ checks[3].usagePercent = 90
  /\ checks[4].usagePercent = 91
  /\ Len(cycleOut) = 2

\* the quotient n / d rounded toward zero, for d > 0
TruncQuot(n, d) == IF n >= 0 THEN n \div d ELSE -((-n) \div d)

\* the snapshot of the payload main holds
Snapshot == parseMetrics(response).metrics

PositiveCapacities ==
  /\ Snapshot.MemoryCapacity > 0
  /\ Snapshot.DiskCapacity > 0
  /\ Snapshot.NetworkCapacity > 0

AlertLine(i, value) ==
  [message |-> ResourceMessages[i], value |-> value, err |-> NoError]

\* the alert lines expected for a snapshot: CPU and memory report the
\* percentage, disk and network the free quantity
ExpectedAlerts(s) ==
  (IF s.CPULoad > 30 THEN <<AlertLine(1, s.CPULoad)>> ELSE <<>>)
  \o (IF TruncQuot(s.MemoryUsage * 100, s.MemoryCapacity) > 80
      THEN <<AlertLine(2, TruncQuot(s.MemoryUsage * 100, s.MemoryCapacity))>>
      ELSE <<>>)
  \o (IF TruncQuot(s.DiskUsage * 100, s.DiskCapacity) > 90
      THEN <<AlertLine(3, TruncQuot(s.DiskCapacity - s.DiskUsage, 1048576))>>
      ELSE <<>>)
  \o (IF TruncQuot(s.NetworkActivity * 100, s.NetworkCapacity) > 90
      THEN <<AlertLine(4, TruncQuot(s.NetworkCapacity - s.NetworkActivity, 1000000))>>
      ELSE <<>>)

\* main has finished the evaluation of a payload that parsed
Evaluated == pcM = "range" /\ Len(checks) = 4

\* C8: for a snapshot with positive capacities the printed integers are
\* CPULoad, usage*100/capacity for memory, (capacity - usage)/2^20 for disk
\* and (capacity - usage)/10^6 for network, each truncated toward zero, the
\* trigger being the percentage above the threshold in all four cases.
C8_ReportedQuantities ==
  (Evaluated /\ PositiveCapacities) => cycleOut = ExpectedAlerts(Snapshot)

C8_Witness ==
  /\ Evaluated
  /\ PositiveCapacities
  /\ Len(cycleOut) = 4
  /\ cycleOut[1].value = 95
  /\ cycleOut[2].value = 81
  /\ cycleOut[3].value = 1
  /\ cycleOut[4].value = -1

\* C9: with capacity 0 every conversion function returns (0, 0) without a
\* fault, and validateResourceUsage prints nothing for a threshold >= 0.
C9_ZeroCapacity ==
  \A i \in 1..Len(metricList) :
    metricList[i].capacity = 0 =>
      /\ pcM # "panic"
      /\ i <= Len(checks) =>
           /\ checks[i].usagePercent = 0
           /\ checks[i].freeResource = 0
           /\ metricList[i].threshold >= 0 =>
                (checks[i].printed = <<>> /\ cycleOut = <<>>)

C9_Witness ==
  /\ Len(checks) = 1
  /\ metricList[1].capacity = 0
  /\ metricList[1].usage = 95
  /\ metricList[1].threshold = 0
  /\ metricList[1].checkUsage = "getPercentageUsage"
  /\ cycleOut = <<>>

ResourceCheckUsages ==
  <<"getDirectUsage", "getPercentageUsage", "getFreeDiskSpace", "getFreeNetworkBandwidth">>

\* C10: a payload that parses gets exactly four checks, CPU, memory, disk,
\* network, each evaluated once, hence at most one alert line per resource
\* and at most four lines; what is printed for a payload is the same
\* whenever that payload comes, whatever came before it.
C10_FourChecksPerPayload ==
  /\ Len(checks) <= 4
  /\ \A i \in 1..Len(checks) : checks[i].metric.checkUsage = ResourceCheckUsages[i]
  /\ (pcM = "range" /\ received # <<>> /\ parseMetrics(response).err = NoError) =>
       Len(checks) = 4
  /\ Len(cycleOut) <= 4
  /\ \A i \in 1..4 : Cardinality(AlertsOf(i)) <= 1
  /\ \A a, b \in seen : a.payload = b.payload => a.lines = b.lines

C10_Witness ==
  /\ Len(received) = 3
  /\ received[1] = AlertBody
  /\ received[2] = QuietBody
  /\ received[3] = AlertBody
  /\ pcM = "range"
  /\ Len(checks) = 4
  /\ Len(cycleOut) = 4
  /\ Cardinality(seen) = 2

\* ------------------------------------------------------------------------
\* C11: parseMetrics fails with the format error and a zero ServerMetrics
\* for every payload whose number of comma-separated fields is not 7,
\* whether its fields are numeric or not; main prints the error and
\* evaluates nothing.
\* ------------------------------------------------------------------------
\* the number of fields of a payload: one more than the number of its commas
FieldCount(data) == Cardinality({i \in 1..Len(data) : data[i] = ","}) + 1

\* main has called parseMetrics on the payload it last received
Parsed == parsedLog # <<>> /\ Len(parsedLog) = Len(received)

\* C11: once main has parsed a payload whose field count is not 7, err is
\* the format error, metrics the zero ServerMetrics, the error line is the
\* only output and no check was made.
C11_WrongFieldCountIsFormatError ==
  (Parsed /\ FieldCount(response) # 7) =>
    /\ err = [kind |-> "format", part |-> <<>>]
    /\ metrics = ZeroMetrics
    /\ checks = <<>>
    /\ cycleOut = <<ErrorLine(err)>>
    /\ pcM \notin {"validate", "panic"}

C11_Witness ==
  /\ Parsed
  /\ response = Text("a,b,c,d,e,f,g,h")
  /\ err.kind = "format"

\* ------------------------------------------------------------------------
\* C12: a payload with a field that is not a valid integer fails with the
\* number error carrying the raw text of the first such field, and gives
\* no snapshot.
\* ------------------------------------------------------------------------
\* some comma-separated field of the payload is not a valid integer
HasBadField(data) ==
  LET parts == Split(data)
  IN  \E i \in 1..Len(parts) : ~Atoi(parts[i]).ok

\* the raw text of the first field that is not a valid integer
FirstBadField(data) ==
  LET parts == Split(data)
      first == CHOOSE i \in 1..Len(parts) :
                 ~Atoi(parts[i]).ok /\ \A j \in 1..(i - 1) : Atoi(parts[j]).ok
  IN  parts[first]

\* main got the number error for the first bad field and evaluated nothing
NumberErrorReported ==
  /\ err = [kind |-> "number", part |-> FirstBadField(response)]
  /\ metrics = ZeroMetrics
  /\ checks = <<>>
  /\ cycleOut = <<ErrorLine(err)>>
  /\ pcM \notin {"validate", "panic"}

\* C12 as stated: for every payload with a field that is not a valid
\* integer, whatever its number of fields, parseMetrics fails with the
\* number error carrying the first such field.
C12_AnyBadFieldIsNumberError ==
  (Parsed /\ HasBadField(response)) => NumberErrorReported

\* C12 amended: for every payload of exactly 7 fields of which at least
\* one is not a valid integer, parseMetrics fails with the number error
\* carrying the raw text of the first such field, and gives no snapshot.
C12_BadFieldAmongSevenIsNumberError ==
  (Parsed /\ FieldCount(response) = 7 /\ HasBadField(response)) =>
    NumberErrorReported

C12_Witness ==
  /\ Parsed
  /\ response = Text("1,x,3,y,5,6,7")
  /\ err.kind = "number"
  /\ err.part = <<"x">>

\* ------------------------------------------------------------------------
\* C13: every payload of exactly 7 comma-separated integers parses, and
\* the snapshot holds them positionally: CPULoad, MemoryCapacity,
\* MemoryUsage, DiskCapacity, DiskUsage, NetworkCapacity, NetworkActivity
\* listed in that order are the 7 integers of the payload in their order.
\* ------------------------------------------------------------------------
\* the 7-tuples of integers whose decimal text is among the payloads
FieldTuples ==
  { <<c, m[1], m[2], d[1], d[2], n[1], n[2]>> :
      c \in CPULoads, m \in MemoryPairs, d \in DiskPairs, n \in NetworkPairs }
  \cup { <<25, 16000, 8000, 500000, 100000, 100000, 50000>>,
         <<95, 1000, 999, 1000, 999, 1000, 999>>,
         <<-1, 100, 81, 100, 91, 100, 91>> }

\* the payload that spells each tuple in decimal
CsvOf == [f \in FieldTuples |-> Csv(f)]

\* the fields of a snapshot in the order of the wire format
Listing(m) ==
  <<m.CPULoad, m.MemoryCapacity, m.MemoryUsage, m.DiskCapacity, m.DiskUsage,
    m.NetworkCapacity, m.NetworkActivity>>

\* C13: the payload spelling a tuple of 7 integers parses without error
\* into the snapshot whose fields, listed in wire order, are that tuple;
\* so does every payload of 7 fields that are all valid integers.
C13_ParseIsPositionalAndLossless ==
  Parsed =>
    /\ \A f \in FieldTuples :
         response = CsvOf[f] => (err = NoError /\ Listing(metrics) = f)
    /\ response = Text("007,2,3,4,5,6,7") =>
         (err = NoError /\ Listing(metrics) = <<7, 2, 3, 4, 5, 6, 7>>)
    /\ (FieldCount(response) = 7 /\ ~HasBadField(response)) =>
         (err = NoError /\ cycleOut # <<ErrorLine(err)>>)

C13_Witness ==
  /\ Parsed
  /\ response = QuietBody
  /\ err = NoError
  /\ metrics.MemoryCapacity = 16000
  /\ metrics.MemoryUsage = 8000
  /\ metrics.NetworkActivity = 50000

\* ------------------------------------------------------------------------
\* C14: every snapshot parseMetrics returns without error, and so every
\* snapshot handed to the evaluator, consists of seven non-negative
\* integers; a payload with a negative field never becomes a snapshot.
\* ------------------------------------------------------------------------
C14_SnapshotsAreNonNegative ==
  (Parsed /\ err = NoError) =>
    /\ \A i \in 1..7 : Listing(metrics)[i] >= 0
    /\ \A i \in 1..Len(metricList) :
         metricList[i].capacity >= 0 /\ metricList[i].usage >= 0

\* ------------------------------------------------------------------------
\* C15: the channel between poller and main is a bounded buffer of
\* capacity 1 to 3: a send completes while main is not receiving as long
\* as the buffer is not full, the producer blocks only on a full buffer,
\* and the unconsumed payloads never exceed the capacity.
\* ------------------------------------------------------------------------
\* the poller is at dataChannel <- string(body) and the send cannot complete
SendBlocked == pcP = "send" /\ pcM # "range"

\* payloads the channel holds: sent and not yet received by main
Buffered == Len(sent) - Len(received)

\* payloads fetched and not yet received by main
Unconsumed == Buffered + (IF pcP = "send" THEN 1 ELSE 0)

\* C15 as stated: with a capacity of at least 1 the producer blocks at its
\* send only when the buffer is full, so only with a payload in the buffer.
C15_SendBlocksOnlyOnFullBuffer ==
  SendBlocked => (Buffered >= 1 /\ Buffered <= 3)

\* C15 amended: the channel of src/main.go has no buffer. A send completes
\* only in the step in which main receives the payload at the head of its
\* range loop, the channel never holds a payload, and at most one fetched
\* payload is unconsumed: the one the producer holds at its send.
C15_UnbufferedRendezvous ==
  /\ [](Buffered = 0 /\ Unconsumed <= 1)
  /\ [][sent' # sent =>
         /\ pcM = "range" /\ pcM' = "parse"
         /\ sent' = Append(sent, body)
         /\ response' = body
         /\ received' = sent']_vars

C15_Witness ==
  /\ pcP = "send"
  /\ pcM = "validate"
  /\ Len(sent) = 1
  /\ Len(received) = 1
  /\ body # NoBody

\* ------------------------------------------------------------------------
\* C16: in every interleaving the payloads main parses and evaluates are
\* exactly the payloads the poller sent, in the order sent, each once and
\* one at a time; nothing sent before the close is lost when the poller
\* terminates.
\* ------------------------------------------------------------------------
C16_ParsedAreTheSentInOrder ==
  /\ [](/\ Len(parsedLog) \in {Len(sent), Len(sent) - 1}
        /\ parsedLog = SubSeq(sent, 1, Len(parsedLog))
        /\ Len(parsedLog) < Len(sent) => (pcM = "parse" /\ response = Last(sent))
        /\ pcM = "validate" =>
             /\ parsedLog = sent
             /\ response = Last(sent)
             /\ metricList = NewMetricList(ParsedPayloads[Last(sent)].metrics)
        /\ pcM = "exit" => (closed /\ parsedLog = sent)
        /\ \A r \in seen : \E i \in 1..Len(parsedLog) : parsedLog[i] = r.payload)
  /\ [][parsedLog' # parsedLog =>
         /\ Len(parsedLog) < Len(sent)
         /\ parsedLog' = Append(parsedLog, sent[Len(parsedLog) + 1])
         /\ sent' = sent]_vars

C16_Witness ==
  /\ pcM = "exit"
  /\ Len(sent) = 2
  /\ sent[1] # sent[2]
  /\ parsedLog = sent
  /\ Cardinality(seen) = 2

\* ------------------------------------------------------------------------
\* C17: in the poller of src/unnamed/part_001 a fetch is a success only
\* if it completes without transport error and with status OK: a response
\* with another status increments the error counter, its body is not read
\* and never sent on the channel.
\* ------------------------------------------------------------------------
C17_NonOKStatusIsAFailure ==
  \A i \in 1..Len(history) :
    history[i].get = "status" =>
      /\ history[i].after = history[i].before + 1
      /\ history[i].read = "none"
      /\ ~history[i].sent

\* ------------------------------------------------------------------------
\* C18: in src/unnamed/part_000 and src/unnamed/part_001, evaluating a
\* snapshot whose memory, disk or network capacity is 0 does not fault:
\* the conversion yields usagePercent 0 and free quantity 0, no alert is
\* printed for that resource, and main goes on to the next payload.
\* ------------------------------------------------------------------------
\* the conversion functions that divide by the capacity
DividingCheckUsages ==
  {"part_000.getPercentageUsage", "part_000.getFreeDiskSpace",
   "part_000.getFreeNetworkBandwidth",
   "checkPercentage", "checkDiskSpace", "checkNetworkUsage"}

\* C18: the variants' evaluation never faults, and a dividing check made
\* on capacity 0 gave (0, 0) and printed nothing.
C18_ZeroCapacityDoesNotFault ==
  /\ pcM # "panic"
  /\ \A i \in 1..Len(checks) :
       (checks[i].metric.capacity = 0
          /\ checks[i].metric.checkUsage \in DividingCheckUsages) =>
         /\ checks[i].usagePercent = 0
         /\ checks[i].freeResource = 0
         /\ checks[i].printed = <<>>

\* ------------------------------------------------------------------------
\* C19: in src/unnamed/part_001 each of the four resources is evaluated
\* exactly once per poll cycle: createMetricsList yields one check per
\* resource, so a payload breaching the CPU, memory or disk threshold
\* prints exactly one alert line for that resource.
\* ------------------------------------------------------------------------
\* the checks of the current cycle made for the resource of message msg
ChecksOf(msg) == {k \in 1..Len(checks) : checks[k].metric.message = msg}

\* C19: the list holds four checks, each resource is checked at most once
\* and alerted at most once per cycle, and exactly once checked when the
\* cycle of a parsed payload is over.
C19_OneCheckPerResource ==
  /\ Len(metricList) \in {0, 4}
  /\ \A i \in 1..4 :
       /\ Cardinality(ChecksOf(ResourceMessages[i])) <= 1
       /\ Cardinality(AlertsOf(i)) <= 1
  /\ (Parsed /\ err = NoError /\ pcM = "range") =>
       \A i \in 1..4 : Cardinality(ChecksOf(ResourceMessages[i])) = 1

\* ------------------------------------------------------------------------
\* C20: in every reachable state of the poller 0 <= errorCounter <=
\* retries, a fetch attempt is issued only in a state with errorCounter <
\* retries, and the terminal notice is printed and the channel closed at
\* most once, only in a state with errorCounter = retries.
\* ------------------------------------------------------------------------
C20_CounterWithinBudget ==
  /\ [](/\ 0 <= errorCounter /\ errorCounter <= maxRetryCount
        /\ notices \in {0, 1}
        /\ notices = 1 => errorCounter = maxRetryCount
        /\ closed => (notices = 1 /\ errorCounter = maxRetryCount)
        /\ pcP \in {"break", "done"} <=> notices = 1)
  /\ [][attempts' # attempts => errorCounter < maxRetryCount]_vars
  /\ [][notices' # notices =>
         (notices = 0 /\ notices' = 1 /\ errorCounter = maxRetryCount)]_vars
  /\ [][closed' # closed =>
         (~closed /\ closed' /\ notices = 1 /\ errorCounter = maxRetryCount)]_vars

C20_Witness ==
  /\ closed
  /\ pcP = "done"
  /\ notices = 1
  /\ errorCounter = maxRetryCount
  /\ attempts >= maxRetryCount
====
